---- MODULE Spec2Model ----
(***************************************************************************)
(* State-machine model of app/colorcodebot.py (class ColorCodeBot and the  *)
(* module-level helpers it calls).                                         *)
(*                                                                         *)
(* Persistent state: the three peewee KeyValue tables. Every handler is    *)
(* one action; what the handler observed and the Gateway / Renderer /      *)
(* Classifier calls it made, in order, are recorded in `last`.             *)
(* Text is a sequence of one-character strings, Python None is NoVal, a    *)
(* probability p is the integer 100 * p.                                   *)
(***************************************************************************)
EXTENDS Integers, Sequences, FiniteSets, TLC

VARIABLES group_syntaxes, ignore_mode_groups,
          group_user_current_watchme_requests, last, retrying, history,
          update, workers, kb_msg, nested

vars == <<group_syntaxes, ignore_mode_groups,
          group_user_current_watchme_requests, last, retrying, history,
          update, workers, kb_msg, nested>>

\* what the handlers of the three tables leave alone
aside == <<retrying, history, update, workers, kb_msg, nested>>

store == <<group_syntaxes, ignore_mode_groups,
           group_user_current_watchme_requests>>

(* ------------------------------ bounds -------------------------------- *)

\* most entities carried by one inbound message
MaxEntities == 2
\* most external calls that fail during one handler invocation
MaxFaults == 2

\* the chat and user ids of which the composite keys are compared
MaxId == 11

(* ------------------------- values and inputs -------------------------- *)

NoVal == "None"

Users == {1, 2}
GroupChat == [id |-> -1, type |-> "supergroup"]
PrivateChat == [id |-> 1, type |-> "private"]
Chats == {GroupChat, PrivateChat}

\* who can write in a chat: anybody in a group, the peer in a one-to-one chat
Senders(chat) == IF chat.type = "private" THEN {chat.id} ELSE Users

Statuses == {"creator", "administrator", "member"}

(* ------------------------------- text --------------------------------- *)

Whitespace == {" ", "\n"}

StartsWith(code, start) ==
    /\ Len(start) <= Len(code)
    /\ SubSeq(code, 1, Len(start)) = start

\* text[offset : offset + length], with Python's clamping of slice bounds
Slice(text, offset, length) ==
    LET lo == IF offset > Len(text) THEN Len(text) ELSE offset
        hi == IF offset + length > Len(text) THEN Len(text) ELSE offset + length
    IN  SubSeq(text, lo + 1, hi)

RECURSIVE Join(_, _)
Join(parts, sep) ==
    IF parts = <<>> THEN <<>>
    ELSE IF Len(parts) = 1 THEN parts[1]
    ELSE parts[1] \o sep \o Join(Tail(parts), sep)

\* len(text.split()): the number of maximal runs of non-whitespace characters
WordCount(text) ==
    Cardinality({i \in 1..Len(text) :
        /\ text[i] \notin Whitespace
        /\ (i = 1 \/ text[i - 1] \in Whitespace)})

Digit(d) == CASE d = 0 -> "0" [] d = 1 -> "1" [] d = 2 -> "2" [] d = 3 -> "3"
              [] d = 4 -> "4" [] d = 5 -> "5" [] d = 6 -> "6" [] d = 7 -> "7"
              [] d = 8 -> "8" [] d = 9 -> "9"

RECURSIVE NatStr(_)
NatStr(n) == IF n < 10 THEN <<Digit(n)>> ELSE NatStr(n \div 10) \o <<Digit(n % 10)>>

\* str(n) of an int
IntStr(n) == IF n < 0 THEN <<"-">> \o NatStr(0 - n) ELSE NatStr(n)

\* f"{chat_id}:{user_id}"
\* mutant: the two ids are joined without the colon
WatchmeKey_NoColon(chat_id, user_id) == IntStr(chat_id) \o IntStr(user_id)

WatchmeKey(chat_id, user_id) == IntStr(chat_id) \o <<":">> \o IntStr(user_id)

(* --------------------------- KeyValue tables --------------------------- *)

KvGet(kv, key, default) == IF key \in DOMAIN kv THEN kv[key] ELSE default

KvSet(kv, key, value) ==
    [k \in DOMAIN kv \cup {key} |-> IF k = key THEN value ELSE kv[k]]

KvDel(kv, key) == [k \in DOMAIN kv \ {key} |-> kv[k]]

KvEmpty == [k \in {} |-> NoVal]

(* ---------------------------- configuration --------------------------- *)

\* silicon.yml: language tag of a pre entity -> syntax
silicon_syntaxes == ("python3" :> "py") @@ ("javascript" :> "js")

\* guesslang.yml: label of the classifier -> syntax
guesslang_syntaxes == ("Python" :> "py") @@ ("JSON" :> "json")

\* syntaxes.yml: button caption -> syntax
syntax_names_exts == <<[name |-> "Python", ext |-> "py"],
                       [name |-> "JSON", ext |-> "json"]>>

\* guess_ext's default threshold 0.12, in hundredths
probability_min == 12

\* the literal prefixes of guess_ext, in the order the dict declares them
SimplePrefixes ==
    <<[start |-> <<"{">>, ext |-> "json"],
      [start |-> <<"-", "-", "-", "\n">>, ext |-> "yaml"],
      [start |-> <<"-", "-", "-", " ">>, ext |-> "diff"],
      [start |-> <<"-", "-", " ">>, ext |-> "lua"],
      [start |-> <<"\\">>, ext |-> "tex"],
      [start |-> <<"%", "%">>, ext |-> "tex"],
      [start |-> <<"[", "[">>, ext |-> "toml"],
      [start |-> <<"[">>, ext |-> "ini"],
      [start |-> <<"<", "?", "p", "h", "p">>, ext |-> "php"],
      [start |-> <<"<">>, ext |-> "xml"],
      [start |-> <<"!", " ">>, ext |-> "factor"],
      [start |-> <<":", " ">>, ext |-> "factor"],
      [start |-> <<"U", "S", "I", "N", "G", ":", " ">>, ext |-> "factor"],
      [start |-> <<"I", "N", ":", " ">>, ext |-> "factor"]>>

(* ------------------------------ keyboards ------------------------------ *)

Button(action, arg) == [action |-> action, arg |-> arg]

BEGONE_BUTTON == Button("begone", NoVal)

kb_syntax ==
    [i \in 1..Len(syntax_names_exts) |-> Button("set ext", syntax_names_exts[i].ext)]
    \o <<BEGONE_BUTTON>>

kb_group_syntax ==
    [i \in 1..Len(syntax_names_exts) |->
        Button("set default ext", syntax_names_exts[i].ext)]
    \o <<Button("set default ext", ""), BEGONE_BUTTON>>

kb_group_options ==
    <<Button("browse group syntax", NoVal), Button("toggle watch mode", NoVal),
      BEGONE_BUTTON>>

\* self.kb
kb == ("syntax" :> kb_syntax) @@ ("group options" :> kb_group_options)
      @@ ("group syntax" :> kb_group_syntax)

\* mutant: the minimized keyboard has no dismiss button
minikb_NoDismiss(kb_name) == <<Button("restore", kb_name)>>

minikb(kb_name) == <<Button("restore", kb_name), BEGONE_BUTTON>>

NoKb == <<>>

(* ------------------------------ messages ------------------------------- *)

SampleTexts ==
    {<<"{", "a", ":", " ", "1", "}">>,
     <<"-", "-", "-", "\n", "a", ":", " ", "1">>,
     <<"-", "-", "-", " ", "a", "/", "f">>,
     <<"-", "-", " ", "x", " ", "y">>,
     <<"\\", "a", " ", "b">>,
     <<"%", "%", " ", "a">>,
     <<"[", "[", "a", "]", "]", " ", "b">>,
     <<"[", "a", "]", " ", "b">>,
     <<"<", "?", "p", "h", "p", " ", "e">>,
     <<"<", "a", ">", " ", "b">>,
     <<"!", " ", "a">>,
     <<":", " ", "a", " ", ";">>,
     <<"U", "S", "I", "N", "G", ":", " ", "a">>,
     <<"I", "N", ":", " ", "a">>,
     <<"-", "a", " ", "b">>,
     <<"a", " ", "b">>,
     <<"a", "b">>}

\* the texts that are sent with several entities
EntityTexts == {<<"a", " ", "b">>, <<"a", "b">>}

Languages == {NoVal, "python3", "cobol"}

\* the entities a client attaches to a text: each spans the whole text
EntityKinds(text) ==
    {[type |-> t, offset |-> 0, length |-> Len(text), language |-> NoVal] :
        t \in {"code", "bold"}}
    \cup {[type |-> "pre", offset |-> 0, length |-> Len(text), language |-> l] :
        l \in Languages}

EntityLists(text, n) == UNION {[1..k -> EntityKinds(text)] : k \in 0..n}

Message(chat, user, text, entities) ==
    [chat |-> chat, from_user |-> user, text |-> text, entities |-> entities]

MessagesOf(chat, users, texts, n) ==
    UNION {{Message(chat, u, t, es) :
                u \in users \cap Senders(chat), es \in EntityLists(t, n)} :
           t \in texts}

(* ----------------------------- pure helpers ---------------------------- *)

IsCodeEntity(e) == e.type \in {"code", "pre"}

IsPreEntity(e) == e.type = "pre"

\* mutant: one word of code is enough
code_subcontent_OneWord(message) ==
    LET code_entities == SelectSeq(message.entities, IsCodeEntity)
        code_content ==
            Join([i \in 1..Len(code_entities) |->
                     Slice(message.text, code_entities[i].offset,
                           code_entities[i].length)],
                 <<"\n", "\n">>)
    IN  IF message.entities # <<>> /\ code_entities # <<>>
           /\ WordCount(code_content) > 0
        THEN code_content
        ELSE <<>>

\* None (no code entity, or at most one word) is the empty text
code_subcontent(message) ==
    LET code_entities == SelectSeq(message.entities, IsCodeEntity)
        code_content ==
            Join([i \in 1..Len(code_entities) |->
                     Slice(message.text, code_entities[i].offset,
                           code_entities[i].length)],
                 <<"\n", "\n">>)
    IN  IF message.entities # <<>> /\ code_entities # <<>>
           /\ WordCount(code_content) > 1
        THEN code_content
        ELSE <<>>

\* Python truthiness of an Optional[str]
Truthy(x) == x \notin {NoVal, ""}

\* lines 467-470: the language of the first pre entity
ExplicitLanguage(message) ==
    LET entities == SelectSeq(message.entities, IsPreEntity)
    IN  IF message.entities # <<>> /\ entities # <<>>
        THEN entities[1].language
        ELSE NoVal

code_specified_syntax(message) ==
    LET lang == ExplicitLanguage(message)
    IN  IF Truthy(lang) THEN KvGet(silicon_syntaxes, lang, NoVal) ELSE NoVal

\* mutant: the last matching prefix of the table wins
FirstPrefix_LastMatch(code, i) ==
    LET hits == {j \in i..Len(SimplePrefixes) :
                    StartsWith(code, SimplePrefixes[j].start)}
    IN  IF hits = {} THEN NoVal
        ELSE SimplePrefixes[CHOOSE j \in hits : \A k \in hits : k <= j].ext

RECURSIVE FirstPrefix(_, _)
\* lines 486-504: the loop over the prefixes, from the i-th on
FirstPrefix(code, i) ==
    IF i > Len(SimplePrefixes) THEN NoVal
    ELSE IF StartsWith(code, SimplePrefixes[i].start) THEN SimplePrefixes[i].ext
    ELSE FirstPrefix(code, i + 1)

\* mutant: the threshold is exclusive
guess_ext_Exclusive(code, guessed) ==
    LET ext == KvGet(guesslang_syntaxes, guessed[1], NoVal)
    IN  IF guessed[2] > probability_min
        THEN [ext |-> ext, simple |-> FALSE]
        ELSE [ext |-> FirstPrefix(code, 1), simple |-> TRUE]

\* guessed = <<syntax, probability>>, the classifier's top entry for code.
\* simple: whether the loop over the prefixes was entered.
guess_ext(code, guessed) ==
    LET ext == KvGet(guesslang_syntaxes, guessed[1], NoVal)
    IN  IF guessed[2] >= probability_min
        THEN [ext |-> ext, simple |-> FALSE]
        ELSE [ext |-> FirstPrefix(code, 1), simple |-> TRUE]

\* mutant: every member of the group passes
is_from_group_admin_or_creator_AnyMember(chat, status) ==
    [value |-> chat.type = "private"
               \/ status \in {"administrator", "creator", "member"},
     queried |-> chat.type # "private"]

\* status: what bot.get_chat_member(...).status answers for the actor.
\* queried: whether get_chat_member is called at all.
is_from_group_admin_or_creator(chat, status) ==
    [value |-> chat.type = "private" \/ status \in {"administrator", "creator"},
     queried |-> chat.type # "private"]

(* ------------------- what a handler invocation leaves ------------------- *)

\* one call of the Gateway (bot.*) or of the Renderer (mk_png)
Call(api, theme, keyboard, text, ok) ==
    [api |-> api, theme |-> theme, kb |-> keyboard, text |-> text, ok |-> ok]

NoGuess == <<NoVal, 0>>

\* no text message taken in yet
NoMessage == Message([id |-> 0, type |-> NoVal], 0, <<>>, <<>>)

Blank ==
    [op |-> "init", chat_id |-> 0, chat_type |-> NoVal, user |-> 0,
     status |-> NoVal, queried |-> FALSE, permitted |-> FALSE,
     reply_author |-> 0,
     gate |-> FALSE, code |-> <<>>, language |-> NoVal, specified |-> NoVal,
     classified |-> FALSE, guessed |-> NoGuess, simple |-> FALSE,
     guess |-> NoVal, ext |-> NoVal,
     kb_name |-> NoVal,
     calls |-> <<>>, raised |-> NoVal, timer |-> FALSE]

Event(op, chat, user) ==
    [Blank EXCEPT !.op = op, !.chat_id = chat.id, !.chat_type = chat.type,
                  !.user = user]

\* the failures of one invocation: the calls <<api, theme>> that raise
\* (ApiException from the Gateway, ProcessExecutionError from the Renderer,
\* an Exception from the Classifier's probabilities)
FaultPoints ==
    ({"mk_png", "send_chat_action", "send_photo", "send_document",
      "edit_message_reply_markup"} \X {"Coldark-Dark", "Coldark-Cold"})
    \cup ({"reply_to", "edit_message_reply_markup", "answer_callback_query",
           "delete_message", "probabilities"} \X {NoVal})

FaultSets(points, n) == {f \in SUBSET points : Cardinality(f) <= n}

(* ------------------------------ rendering ------------------------------ *)

\* lines 654-674: one pass of the loop over the themes.
\* small: the PNG is below 300000 bytes.
RenderTheme(theme, do_attach_send_kb, faults, small) ==
    LET Fails(api) == <<api, theme>> \in faults
        png == Call("mk_png", theme, NoKb, <<>>, ~Fails("mk_png"))
        action == Call("send_chat_action", theme, NoKb, <<>>,
                       ~Fails("send_chat_action"))
        photo == Call("send_photo", theme, NoKb, <<>>, ~Fails("send_photo"))
        document == Call("send_document", theme, NoKb, <<>>,
                         ~Fails("send_document"))
        as_photo == small /\ ~Fails("send_photo")
        sending == IF ~small THEN <<document>>
                   ELSE IF as_photo THEN <<photo>> ELSE <<photo, document>>
        image_kb ==
            (IF do_attach_send_kb /\ as_photo
             THEN <<Button("send to chat", "img")>> ELSE <<>>)
            \o <<BEGONE_BUTTON>>
        edit == Call("edit_message_reply_markup", theme, image_kb, <<>>,
                     ~Fails("edit_message_reply_markup"))
    IN  IF Fails("mk_png")
        THEN [calls |-> <<png>>, raised |-> "ProcessExecutionError"]
        ELSE IF Fails("send_chat_action")
        THEN [calls |-> <<png, action>>, raised |-> "ApiException"]
        ELSE IF ~as_photo /\ Fails("send_document")
        THEN [calls |-> <<png, action>> \o sending, raised |-> "ApiException"]
        ELSE IF Fails("edit_message_reply_markup")
        THEN [calls |-> <<png, action>> \o sending \o <<edit>>,
              raised |-> "ApiException"]
        ELSE [calls |-> <<png, action>> \o sending \o <<edit>>,
              raised |-> NoVal]

\* the for loop of lines 653-674: an exception ends it
RECURSIVE RenderThemes(_, _, _, _)
RenderThemes(themes, do_attach_send_kb, faults, small) ==
    IF themes = <<>> THEN [calls |-> <<>>, raised |-> NoVal]
    ELSE LET first == RenderTheme(Head(themes), do_attach_send_kb, faults, small)
             rest == RenderThemes(Tail(themes), do_attach_send_kb, faults, small)
         IN  IF first.raised # NoVal THEN first
             ELSE [calls |-> first.calls \o rest.calls, raised |-> rest.raised]

\* mutant: the light theme is not dropped for groups
Themes_Both(chat) == <<"Coldark-Dark", "Coldark-Cold">>

\* lines 641-651
Themes(chat) ==
    <<"Coldark-Dark">>
    \o (IF chat.type # "private" THEN <<>> ELSE <<"Coldark-Cold">>)

\* lines 641-674 of set_snippet_filetype, for a snippet of the chat
RenderSnippet(chat, faults, small) ==
    RenderThemes(Themes(chat), chat.type = "private", faults, small)

(* ------------------------------ handlers ------------------------------- *)

\* mutant: an absent override counts as 'watch' in either mode
user_is_ignored_OneDefault(chat_id, user_id) ==
    IF KvGet(ignore_mode_groups, chat_id, FALSE)
    THEN KvGet(group_user_current_watchme_requests,
               WatchmeKey(chat_id, user_id), "watch") # "watch"
    ELSE KvGet(group_user_current_watchme_requests,
               WatchmeKey(chat_id, user_id), "watch") = "ignore"

\* lines 508-522: TRUE when intake_snippet returns without processing
user_is_ignored(chat_id, user_id) ==
    IF KvGet(ignore_mode_groups, chat_id, FALSE)
    THEN KvGet(group_user_current_watchme_requests,
               WatchmeKey(chat_id, user_id), "ignore") # "watch"
    ELSE KvGet(group_user_current_watchme_requests,
               WatchmeKey(chat_id, user_id), "watch") = "ignore"

\* lines 523-527
text_content(message) ==
    IF message.chat.type # "private" THEN code_subcontent(message)
    ELSE message.text

\* whether intake_snippet gets as far as calling the classifier
AsksClassifier(message) ==
    /\ ~user_is_ignored(message.chat.id, message.from_user)
    /\ text_content(message) # <<>>
    /\ ~Truthy(code_specified_syntax(message))

ResolveWith(message, guessed, classified, prefer_default) ==
    LET specified == code_specified_syntax(message)
        g == guess_ext(text_content(message), guessed)
        ext == IF classified THEN g.ext ELSE specified
        default == KvGet(group_syntaxes, message.chat.id, NoVal)
    IN  [specified |-> specified,
         classified |-> classified,
         guessed |-> IF classified THEN guessed ELSE NoGuess,
         simple |-> classified /\ g.simple,
         guess |-> IF classified THEN g.ext ELSE NoVal,
         ext |-> IF prefer_default /\ Truthy(default) THEN default
                 ELSE IF Truthy(ext) THEN ext
                 ELSE default]

\* mutant: the classifier is asked whatever the message's tag
ResolveSyntax_GuessFirst(message, guessed) ==
    ResolveWith(message, guessed, TRUE, FALSE)

\* mutant: a stored chat default overrides tag and guess
ResolveSyntax_DefaultFirst(message, guessed) ==
    ResolveWith(message, guessed, ~Truthy(code_specified_syntax(message)), TRUE)

\* lines 528-542: the syntax of the snippet, with what decided it
ResolveSyntax(message, guessed) ==
    LET specified == code_specified_syntax(message)
        g == guess_ext(text_content(message), guessed)
        classified == ~Truthy(specified)
        ext == IF classified THEN g.ext ELSE specified
    IN  [specified |-> specified,
         classified |-> classified,
         guessed |-> IF classified THEN guessed ELSE NoGuess,
         simple |-> classified /\ g.simple,
         guess |-> IF classified THEN g.ext ELSE NoVal,
         ext |-> IF Truthy(ext) THEN ext
                 ELSE KvGet(group_syntaxes, message.chat.id, NoVal)]

\* lines 543-560
PostSnippet(ev, chat, ext, faults, small) ==
    LET failed == <<"reply_to", NoVal>> \in faults
        render == RenderSnippet(chat, faults, small)
        prompt ==
            IF Truthy(ext)
            THEN Call("reply_to", NoVal, minikb("syntax"), <<"query ext", ext>>,
                      ~failed)
            ELSE Call("reply_to", NoVal, kb["syntax"], <<"query ext">>, ~failed)
    IN  IF failed
        THEN [ev EXCEPT !.calls = <<prompt>>, !.raised = "ApiException"]
        ELSE IF Truthy(ext)
        THEN [ev EXCEPT !.calls = <<prompt>> \o render.calls,
                        !.raised = render.raised,
                        !.timer = (render.raised = NoVal)]
        ELSE [ev EXCEPT !.calls = <<prompt>>, !.timer = TRUE]

IntakeOutcome(message, guessed, faults, small) ==
    LET ev == Event("intake_snippet", message.chat, message.from_user)
        r == ResolveSyntax(message, guessed)
    IN  IF user_is_ignored(message.chat.id, message.from_user) THEN ev
        ELSE IF text_content(message) = <<>> THEN [ev EXCEPT !.gate = TRUE]
        ELSE IF AsksClassifier(message) /\ <<"probabilities", NoVal>> \in faults
        THEN \* line 475: nothing around guesser.probabilities catches
             [ev EXCEPT !.gate = TRUE, !.code = text_content(message),
                        !.language = ExplicitLanguage(message),
                        !.specified = r.specified, !.classified = TRUE,
                        !.calls = <<Call("probabilities", NoVal, NoKb, <<>>,
                                         FALSE)>>,
                        !.raised = "Exception"]
        ELSE PostSnippet(
                 [ev EXCEPT !.gate = TRUE, !.code = text_content(message),
                            !.language = ExplicitLanguage(message),
                            !.specified = r.specified,
                            !.classified = r.classified,
                            !.guessed = r.guessed, !.simple = r.simple,
                            !.guess = r.guess, !.ext = r.ext],
                 message.chat, r.ext, faults, small)

intake_snippet(message, guessed, faults, small) ==
    /\ last' = IntakeOutcome(message, guessed, faults, small)
    /\ UNCHANGED store

\* the 'set ext' callback: lines 621-677.
\* has_snippet: the prompt still has the message it replied to.
SetExtOutcome(chat, user, ext, has_snippet, faults, small) ==
    LET ev == [Event("set_snippet_filetype", chat, user) EXCEPT !.ext = ext]
        failed == <<"edit_message_reply_markup", NoVal>> \in faults
        mini == Call("edit_message_reply_markup", NoVal, minikb("syntax"), <<>>,
                     ~failed)
        render == RenderSnippet(chat, faults, small)
        unanswered == <<"answer_callback_query", NoVal>> \in faults
        answer == Call("answer_callback_query", NoVal, NoKb, <<>>, ~unanswered)
    IN  IF failed
        THEN [ev EXCEPT !.calls = <<mini>>, !.raised = "ApiException"]
        ELSE IF ~has_snippet
        THEN [ev EXCEPT !.calls = <<mini>>, !.raised = "AttributeError"]
        ELSE IF render.raised # NoVal
        THEN [ev EXCEPT !.calls = <<mini>> \o render.calls,
                        !.raised = render.raised]
        ELSE [ev EXCEPT !.calls = <<mini>> \o render.calls \o <<answer>>,
                        !.raised = IF unanswered THEN "ApiException" ELSE NoVal]

set_snippet_filetype(chat, user, ext, has_snippet, faults, small) ==
    /\ last' = SetExtOutcome(chat, user, ext, has_snippet, faults, small)
    /\ UNCHANGED store

ignore_group_user(chat, user) ==
    /\ group_user_current_watchme_requests' =
           KvSet(group_user_current_watchme_requests,
                 WatchmeKey(chat.id, user), "ignore")
    /\ last' = Event("ignore_group_user", chat, user)
    /\ UNCHANGED <<group_syntaxes, ignore_mode_groups>>

watch_group_user(chat, user) ==
    /\ group_user_current_watchme_requests' =
           KvSet(group_user_current_watchme_requests,
                 WatchmeKey(chat.id, user), "watch")
    /\ last' = Event("watch_group_user", chat, user)
    /\ UNCHANGED <<group_syntaxes, ignore_mode_groups>>

\* lines 369-376, read from the given tables
get_group_config_md(syntaxes, modes, chat_id) ==
    <<KvGet(syntaxes, chat_id, NoVal),
      IF KvGet(modes, chat_id, FALSE) THEN "ignore" ELSE "watch">>

Permission(ev, chat, status) ==
    LET p == is_from_group_admin_or_creator(chat, status)
    IN  [ev EXCEPT !.status = status, !.queried = p.queried,
                   !.permitted = p.value]

manage_group_options(chat, user, status) ==
    LET ev == Permission(Event("manage_group_options", chat, user), chat, status)
    IN  /\ last' =
               IF ev.permitted
               THEN [ev EXCEPT !.calls =
                        <<Call("send_message", NoVal, kb["group options"],
                               get_group_config_md(group_syntaxes,
                                                   ignore_mode_groups, chat.id),
                               TRUE)>>]
               ELSE ev
        /\ UNCHANGED store

\* mutant: the toggle always turns ignore mode on
ToggledModes_On(chat_id) == KvSet(ignore_mode_groups, chat_id, TRUE)

\* lines 412-415
ToggledModes(chat_id) ==
    KvSet(ignore_mode_groups, chat_id, ~KvGet(ignore_mode_groups, chat_id, FALSE))

toggle_group_watch(chat, user, status) ==
    LET ev == Permission(Event("toggle_group_watch", chat, user), chat, status)
    IN  IF ev.permitted
        THEN /\ ignore_mode_groups' = ToggledModes(chat.id)
             /\ last' = [ev EXCEPT !.calls =
                            <<Call("edit_message_text", NoVal,
                                   kb["group options"],
                                   get_group_config_md(group_syntaxes,
                                                       ignore_mode_groups',
                                                       chat.id),
                                   TRUE)>>]
             /\ UNCHANGED <<group_syntaxes, group_user_current_watchme_requests>>
        ELSE /\ last' = ev
             /\ UNCHANGED store

\* mutant: the empty selection leaves the stored default alone
ChosenSyntaxes_Keep(chat_id, ext) ==
    IF Truthy(ext) THEN KvSet(group_syntaxes, chat_id, ext) ELSE group_syntaxes

\* lines 602-605
ChosenSyntaxes(chat_id, ext) ==
    IF Truthy(ext) THEN KvSet(group_syntaxes, chat_id, ext)
    ELSE KvDel(group_syntaxes, chat_id)

set_group_syntax(chat, user, ext, status) ==
    LET ev == Permission([Event("set_group_syntax", chat, user) EXCEPT !.ext = ext],
                         chat, status)
    IN  IF ev.permitted
        THEN /\ group_syntaxes' = ChosenSyntaxes(chat.id, ext)
             /\ last' = [ev EXCEPT !.calls =
                            <<Call("edit_message_text", NoVal,
                                   kb["group options"],
                                   get_group_config_md(group_syntaxes',
                                                       ignore_mode_groups,
                                                       chat.id),
                                   TRUE)>>]
             /\ UNCHANGED <<ignore_mode_groups,
                            group_user_current_watchme_requests>>
        ELSE /\ last' = ev
             /\ UNCHANGED store

\* the 'restore' callback, lines 580-588. kb_name: data['kb_name']
restore_kb(chat, user, kb_name, faults) ==
    LET ev == [Event("restore_kb", chat, user) EXCEPT !.kb_name = kb_name]
        failed == <<"edit_message_reply_markup", NoVal>> \in faults
        unanswered == <<"answer_callback_query", NoVal>> \in faults
        edit == Call("edit_message_reply_markup", NoVal, kb[kb_name], <<>>,
                     ~failed)
        answer == Call("answer_callback_query", NoVal, NoKb, <<>>, ~unanswered)
    IN  /\ last' =
               IF kb_name \notin DOMAIN kb
               THEN [ev EXCEPT !.raised = "KeyError"]
               ELSE IF failed
               THEN [ev EXCEPT !.calls = <<edit>>, !.raised = "ApiException"]
               ELSE [ev EXCEPT !.calls = <<edit, answer>>,
                        !.raised = IF unanswered THEN "ApiException" ELSE NoVal]
        /\ UNCHANGED store

\* the timer thread of a prompt, lines 232-243: the ApiException of
\* delete_message is caught and logged
delete_after_delay(chat, faults) ==
    LET failed == <<"delete_message", NoVal>> \in faults
    IN  /\ last' = [Event("delete_after_delay", chat, 0) EXCEPT
               !.calls = <<Call("delete_message", NoVal, NoKb, <<>>, ~failed)>>]
        /\ UNCHANGED store

\* lines 450-459. reply_author: the author of the message the dismissed
\* message replies to, 0 when it has no reply_to_message.
BegonePermission(chat, user, reply_author, status) ==
    IF reply_author # 0
    THEN [value |-> reply_author = user, queried |-> FALSE]
    ELSE is_from_group_admin_or_creator(chat, status)

begone(chat, user, reply_author, status, faults) ==
    LET p == BegonePermission(chat, user, reply_author, status)
        failed == <<"delete_message", NoVal>> \in faults
        ev == [Event("begone", chat, user) EXCEPT
                  !.status = status, !.reply_author = reply_author,
                  !.queried = p.queried, !.permitted = p.value]
    IN  /\ last' =
               IF p.value
               THEN [ev EXCEPT
                        !.calls = <<Call("delete_message", NoVal, NoKb, <<>>,
                                         ~failed)>>,
                        !.raised = IF failed THEN "ApiException" ELSE NoVal]
               ELSE ev
        /\ UNCHANGED store

(* -------------------------------- retry -------------------------------- *)

\* retry's default attempts
attempts == 6

\* the functions defined under @retry
Wrapped ==
    {"delete_after_delay", "send_image", "switch_from_inline", "welcome",
     "get_group_config_md", "manage_group_options", "browse_group_syntax",
     "ignore_group_user", "watch_group_user", "begone", "intake_snippet",
     "send_photo_elsewhere", "restore_kb", "set_group_syntax",
     "set_snippet_filetype"}

\* how one invocation of the wrapped function can end
Outcomes == {"ok", "ConnectionError", "ApiException", "AttributeError"}

\* one call of wrapper: the outcomes of the invocations made so far
RetryIdle ==
    [original |-> NoVal, outcomes |-> <<>>, last_error |-> NoVal,
     status |-> "idle", raised |-> NoVal]

\* mutant: every exception is caught and retried
IsRetried_Any(outcome) == outcome # "ok"

\* line 199: except exceptions as e, with exceptions = ConnectionError
IsRetried(outcome) == outcome = "ConnectionError"

\* a wrapped function is called: wrapper starts, lines 191-195
RetryCall(original) ==
    /\ retrying.status # "looping"
    /\ retrying' = [RetryIdle EXCEPT !.original = original, !.status = "looping"]

\* lines 196-209: one pass of the for loop
RetryAttempt(outcome) ==
    /\ retrying.status = "looping"
    /\ Len(retrying.outcomes) < attempts
    /\ retrying' =
           LET made == [retrying EXCEPT !.outcomes = Append(@, outcome)]
           IN  IF outcome = "ok"
               THEN [made EXCEPT !.last_error = NoVal, !.status = "returned"]
               ELSE IF IsRetried(outcome)
               THEN [made EXCEPT !.last_error = outcome]
               ELSE [made EXCEPT !.status = "raised", !.raised = outcome]

\* lines 210-211: the loop ran out without a break
RetryExhausted ==
    /\ retrying.status = "looping"
    /\ Len(retrying.outcomes) = attempts
    /\ retrying' = [retrying EXCEPT !.status = "raised",
                                    !.raised = retrying.last_error]

(* ------------------------------- history ------------------------------ *)

\* what get_group_config_md reports for every chat
ConfigOf(syntaxes, modes) ==
    [c \in Chats |-> get_group_config_md(syntaxes, modes, c.id)]

\* the event handled before the last one (previous), the configuration
\* before the last event (before) and before the previous one (earlier)
NoHistory ==
    [previous |-> [op |-> "init", chat_id |-> 0, permitted |-> FALSE,
                   ext |-> NoVal],
     before |-> ConfigOf(KvEmpty, KvEmpty),
     earlier |-> ConfigOf(KvEmpty, KvEmpty)]

\* the dispatcher hands the next update to a handler
Dispatched ==
    history' =
        [previous |-> [op |-> last.op, chat_id |-> last.chat_id,
                       permitted |-> last.permitted, ext |-> last.ext],
         before |-> ConfigOf(group_syntaxes, ignore_mode_groups),
         earlier |-> history.before]

(* ------------------------------- workers ------------------------------ *)

\* TeleBot runs the handlers of two updates in two worker threads; each
\* KeyValue get, set and delete is one statement of the database.
\* jobs: per worker the callback it handles, where it is (ready, read,
\* done) and what it read; origin: the tables when the two were handed out.
Job(op, chat_id, ext) ==
    [op |-> op, chat_id |-> chat_id, ext |-> ext, pc |-> "ready", seen |-> FALSE]

NoWorkers ==
    [origin |-> [syntaxes |-> KvEmpty, modes |-> KvEmpty],
     jobs |-> <<[Job("init", 0, NoVal) EXCEPT !.pc = "done"],
                [Job("init", 0, NoVal) EXCEPT !.pc = "done"]>>]

AllDone == \A w \in 1..2 : workers.jobs[w].pc = "done"

\* two authorized settings callbacks of one chat arrive together
Handout(first, second) ==
    /\ AllDone
    /\ workers' = [origin |-> [syntaxes |-> group_syntaxes,
                               modes |-> ignore_mode_groups],
                   jobs |-> <<first, second>>]
    /\ UNCHANGED store

\* mutant: the toggle stores what it read
Flipped_Same(seen) == seen

\* line 413: not ...
Flipped(seen) == ~seen

\* line 413: self.ignore_mode_groups.get(chat_id, False)
ToggleRead(w) ==
    LET job == workers.jobs[w]
    IN  /\ job.op = "toggle_group_watch" /\ job.pc = "ready"
        /\ workers' = [workers EXCEPT
               !.jobs[w].seen = KvGet(ignore_mode_groups, job.chat_id, FALSE),
               !.jobs[w].pc = "read"]
        /\ UNCHANGED store

\* line 412: self.ignore_mode_groups[chat_id] = ...
ToggleWrite(w) ==
    LET job == workers.jobs[w]
    IN  /\ job.op = "toggle_group_watch" /\ job.pc = "read"
        /\ ignore_mode_groups' =
               KvSet(ignore_mode_groups, job.chat_id, Flipped(job.seen))
        /\ workers' = [workers EXCEPT !.jobs[w].pc = "done"]
        /\ UNCHANGED <<group_syntaxes, group_user_current_watchme_requests>>

\* lines 602-605: one set or one delete
ChooseWrite(w) ==
    LET job == workers.jobs[w]
    IN  /\ job.op = "set_group_syntax" /\ job.pc = "ready"
        /\ group_syntaxes' = ChosenSyntaxes(job.chat_id, job.ext)
        /\ workers' = [workers EXCEPT !.jobs[w].pc = "done"]
        /\ UNCHANGED <<ignore_mode_groups, group_user_current_watchme_requests>>

(* -------------------------------- kb_msg ------------------------------- *)

\* The 'which syntax?' message of one snippet as the Gateway holds it:
\* state (none, shown, deleted), the keyboard on it, the layout that the
\* last minimizing replaced (full), the chat and the author of the snippet
\* it replies to, its timer (none, armed, fired), and state and keyboard as
\* they were before the last invocation on it (before).
NoPrompt ==
    [state |-> "none", kb |-> NoKb, full |-> NoKb,
     chat |-> [id |-> 0, type |-> NoVal], author |-> 0, timer |-> "none",
     before |-> [state |-> "none", kb |-> NoKb]]

Touched == [kb_msg EXCEPT !.before = [state |-> kb_msg.state, kb |-> kb_msg.kb]]

\* the Gateway refuses to edit or delete a message that is gone
GoneFaults(api) ==
    IF kb_msg.state = "deleted" THEN {<<api, NoVal>>} ELSE {}

\* the calls of the log that changed the message itself
OnPrompt(calls, api) ==
    SelectSeq(calls, LAMBDA c : c.api = api /\ c.theme = NoVal /\ c.ok)

IsMinimized(keyboard) ==
    \E i \in 1..Len(keyboard) : keyboard[i].action = "restore"

\* reply_to of lines 544-559 and the Thread of line 560
Posted(message, ev) ==
    LET replies == OnPrompt(ev.calls, "reply_to")
    IN  IF replies = <<>> THEN Touched
        ELSE [Touched EXCEPT !.state = "shown", !.kb = replies[1].kb,
                             !.chat = message.chat,
                             !.author = message.from_user,
                             !.timer = IF ev.timer THEN "armed" ELSE "none"]

\* edit_message_reply_markup of lines 625-629 and 583-587
Edited(ev) ==
    LET edits == OnPrompt(ev.calls, "edit_message_reply_markup")
    IN  IF edits = <<>> THEN Touched
        ELSE [Touched EXCEPT
                 !.kb = edits[1].kb,
                 !.full = IF IsMinimized(edits[1].kb) /\ ~IsMinimized(kb_msg.kb)
                          THEN kb_msg.kb ELSE @]

\* delete_message of lines 236 and 462-464
Deleted(ev) ==
    IF OnPrompt(ev.calls, "delete_message") = <<>> THEN Touched
    ELSE [Touched EXCEPT !.state = "deleted"]

(* ---------------------------- nested retry ---------------------------- *)

\* One text message on its way through intake_snippet, set_snippet_filetype
\* and send_image, each under its own retry wrapper. intake_snippet,
\* set_snippet_filetype, send_image: the number of the running invocation
\* within the running call of its wrapper; theme: the position in the loop
\* over the themes; prompts, delivered, attempted: what the Gateway was
\* asked and did for the message so far.
NoNested ==
    [pc |-> "idle", chat |-> [id |-> 0, type |-> NoVal],
     intake_snippet |-> 0, set_snippet_filetype |-> 0, send_image |-> 0,
     theme |-> 0, prompts |-> 0,
     delivered |-> [t \in {"Coldark-Dark", "Coldark-Cold"} |-> 0],
     attempted |-> [call \in {<<"reply_to", NoVal>>,
                              <<"send_photo", "Coldark-Dark">>,
                              <<"send_photo", "Coldark-Cold">>} |-> 0],
     raised |-> NoVal]

\* an invocation of intake_snippet raised: lines 196-211 of its wrapper
RaisedInIntake(n, outcome) ==
    IF IsRetried(outcome) /\ n.intake_snippet < attempts
    THEN [n EXCEPT !.intake_snippet = @ + 1, !.pc = "reply_to"]
    ELSE [n EXCEPT !.pc = "raised", !.raised = outcome]

\* an invocation of set_snippet_filetype raised: its wrapper runs it again
\* from line 621, or raises into intake_snippet at line 552
RaisedInSetSnippet(n, outcome) ==
    IF IsRetried(outcome) /\ n.set_snippet_filetype < attempts
    THEN [n EXCEPT !.set_snippet_filetype = @ + 1, !.theme = 1,
                   !.send_image = 1]
    ELSE RaisedInIntake(n, outcome)

\* an invocation of send_image raised: its wrapper runs it again, or raises
\* into set_snippet_filetype at line 655
RaisedInSendImage(n, outcome) ==
    IF IsRetried(outcome) /\ n.send_image < attempts
    THEN [n EXCEPT !.send_image = @ + 1]
    ELSE RaisedInSetSnippet(n, outcome)

\* a text message with a resolvable syntax reaches intake_snippet
NestedIntake(chat) ==
    /\ nested.pc \in {"idle", "done", "raised"}
    /\ nested' = [NoNested EXCEPT !.pc = "reply_to", !.chat = chat,
                                  !.intake_snippet = 1]

\* lines 544-552: reply_to, then the call of set_snippet_filetype
NestedReplyTo(outcome) ==
    /\ nested.pc = "reply_to"
    /\ nested' =
           LET n == [nested EXCEPT !.attempted[<<"reply_to", NoVal>>] = @ + 1]
           IN  IF outcome = "ok"
               THEN [n EXCEPT !.prompts = @ + 1, !.pc = "send_photo",
                              !.set_snippet_filetype = 1, !.theme = 1,
                              !.send_image = 1]
               ELSE RaisedInIntake(n, outcome)

\* lines 653-674 and 250-255: send_image for the theme at hand, then the
\* next pass of the loop or the return to line 560
NestedSendPhoto(outcome) ==
    /\ nested.pc = "send_photo"
    /\ nested' =
           LET themes == Themes(nested.chat)
               n == [nested EXCEPT
                        !.attempted[<<"send_photo", themes[nested.theme]>>] = @ + 1]
           IN  IF outcome = "ok"
               THEN IF nested.theme < Len(themes)
                    THEN [n EXCEPT !.delivered[themes[nested.theme]] = @ + 1,
                                   !.theme = @ + 1, !.send_image = 1]
                    ELSE [n EXCEPT !.delivered[themes[nested.theme]] = @ + 1,
                                   !.pc = "done"]
               ELSE RaisedInSendImage(n, outcome)

(* --------------------------- specifications ---------------------------- *)

\* the tables of a fresh database, no event handled yet
Init ==
    /\ group_syntaxes = KvEmpty
    /\ ignore_mode_groups = KvEmpty
    /\ group_user_current_watchme_requests = KvEmpty
    /\ last = Blank
    /\ retrying = RetryIdle
    /\ history = NoHistory
    /\ update = NoMessage
    /\ workers = NoWorkers
    /\ kb_msg = NoPrompt
    /\ nested = NoNested

\* the classifier's top entry: a mapped or an unmapped label, just below or
\* at the threshold
Guesses == {"Python", "Prolog"} \X {11, 12}

\* the classifier answers only when it is asked
GuessesFor(message) == IF AsksClassifier(message) THEN Guesses ELSE {NoGuess}

CoreText == <<"a", " ", "b">>

CoreMessages ==
    UNION {{Message(c, u, CoreText, es) :
               u \in Senders(c),
               es \in {<<>>, <<[type |-> "code", offset |-> 0,
                                length |-> Len(CoreText), language |-> NoVal]>>}} :
           c \in Chats}

\* Spec: the three tables under every command and settings action, with
\* the consent gate and the permission checks; no call fails but
\* delete_message.
Ignoreme == \E c \in Chats : \E u \in Senders(c) : ignore_group_user(c, u) /\ UNCHANGED aside

Watchme == \E c \in Chats : \E u \in Senders(c) : watch_group_user(c, u) /\ UNCHANGED aside

Snippet ==
    \E m \in CoreMessages : \E g \in GuessesFor(m) :
        intake_snippet(m, g, {}, TRUE) /\ UNCHANGED aside

Settings ==
    \E c \in Chats : \E u \in Senders(c) : \E s \in Statuses :
        manage_group_options(c, u, s) /\ UNCHANGED aside

ToggleWatch ==
    \E c \in Chats : \E u \in Senders(c) : \E s \in Statuses :
        toggle_group_watch(c, u, s) /\ UNCHANGED aside

SetDefaultExt ==
    \E c \in Chats : \E u \in Senders(c) : \E s \in Statuses :
        \E ext \in {"py", ""} : set_group_syntax(c, u, ext, s) /\ UNCHANGED aside

Begone ==
    \E c \in Chats : \E u \in Senders(c) : \E s \in Statuses :
        \E author \in {0} \cup Users :
            \E f \in FaultSets({<<"delete_message", NoVal>>}, MaxFaults) :
                begone(c, u, author, s, f) /\ UNCHANGED aside

Next ==
    \/ Ignoreme
    \/ Watchme
    \/ Snippet
    \/ Settings
    \/ ToggleWatch
    \/ SetDefaultExt
    \/ Begone

Spec == Init /\ [][Next]_vars

\* SpecResolve: syntax resolution over the sample texts and entity lists,
\* with and without a stored default; every call succeeds.
ResolveMessages ==
    UNION {MessagesOf(c, {1}, SampleTexts, 1)
           \cup MessagesOf(c, {1}, EntityTexts, MaxEntities) : c \in Chats}

ResolveSnippet ==
    \E m \in ResolveMessages : \E g \in GuessesFor(m) :
        intake_snippet(m, g, {}, TRUE) /\ UNCHANGED aside

ResolveSetDefault ==
    \E c \in Chats : \E ext \in {"rb", ""} : set_group_syntax(c, 1, ext, "creator") /\ UNCHANGED aside

NextResolve == ResolveSnippet \/ ResolveSetDefault

SpecResolve == Init /\ [][NextResolve]_vars

\* SpecRender: rendering and delivery with failing Renderer and Gateway
\* calls, entered from a text message and from the 'set ext' button.
RenderMessages ==
    {Message(PrivateChat, 1, CoreText, <<>>)}
    \cup {Message(GroupChat, u, CoreText,
                  <<[type |-> "pre", offset |-> 0, length |-> Len(CoreText),
                     language |-> "python3"]>>) : u \in Users}

\* the calls that a rendering in the chat can make
FaultPointsOf(chat) ==
    {p \in FaultPoints :
        /\ p[1] # "delete_message"
        /\ p[2] \in {NoVal} \cup {Themes(chat)[i] : i \in 1..Len(Themes(chat))}}

RenderFromSnippet ==
    \E m \in RenderMessages : \E g \in GuessesFor(m) :
        \E f \in FaultSets(FaultPointsOf(m.chat)
                           \ {<<"edit_message_reply_markup", NoVal>>,
                              <<"answer_callback_query", NoVal>>}, MaxFaults) :
            \E small \in BOOLEAN : intake_snippet(m, g, f, small) /\ UNCHANGED aside

RenderFromButton ==
    \E c \in Chats : \E u \in Senders(c) : \E ext \in {"py", "json"} :
        \E has_snippet \in BOOLEAN :
            \E f \in FaultSets(FaultPointsOf(c) \ {<<"reply_to", NoVal>>,
                                                    <<"probabilities", NoVal>>},
                               MaxFaults) :
                \E small \in BOOLEAN :
                    set_snippet_filetype(c, u, ext, has_snippet, f, small) /\ UNCHANGED aside

NextRender == RenderFromSnippet \/ RenderFromButton

SpecRender == Init /\ [][NextRender]_vars

\* SpecRetry: one call after another of a function wrapped by retry, every
\* invocation ending in any of the outcomes.
RetryEnter ==
    \E original \in Wrapped : RetryCall(original) /\ UNCHANGED <<store, last, history, update, workers, kb_msg, nested>>

RetryPass ==
    \E outcome \in Outcomes : RetryAttempt(outcome) /\ UNCHANGED <<store, last, history, update, workers, kb_msg, nested>>

RetryLeave == RetryExhausted /\ UNCHANGED <<store, last, history, update, workers, kb_msg, nested>>

NextRetry == RetryEnter \/ RetryPass \/ RetryLeave

SpecRetry == Init /\ [][NextRetry]_vars

\* SpecSettings: the settings menu of a chat, one callback after another.
SettingsStatuses == {"creator", "member"}

SettingsShow ==
    \E c \in Chats : \E u \in Senders(c) : \E s \in SettingsStatuses :
        manage_group_options(c, u, s) /\ Dispatched /\ UNCHANGED <<retrying, update, workers, kb_msg, nested>>

SettingsToggle ==
    \E c \in Chats : \E u \in Senders(c) : \E s \in SettingsStatuses :
        toggle_group_watch(c, u, s) /\ Dispatched /\ UNCHANGED <<retrying, update, workers, kb_msg, nested>>

SettingsChoose ==
    \E c \in Chats : \E u \in Senders(c) : \E s \in SettingsStatuses :
        \E ext \in {"py", ""} :
            set_group_syntax(c, u, ext, s) /\ Dispatched /\ UNCHANGED <<retrying, update, workers, kb_msg, nested>>

NextSettings == SettingsShow \/ SettingsToggle \/ SettingsChoose

SpecSettings == Init /\ [][NextSettings]_vars

\* SpecFilter: text messages whose entities cover the whole text or its
\* first character, in a group and in a private chat; update is the message
\* that the handler was given.
FilterEntities(text) ==
    {[type |-> t, offset |-> 0, length |-> l, language |-> NoVal] :
        t \in {"code", "pre", "bold"}, l \in {1, Len(text)}}

FilterMessages ==
    UNION {{Message(c, 1, t, es) :
                es \in UNION {[1..k -> FilterEntities(t)] : k \in 0..MaxEntities}} :
           c \in Chats, t \in EntityTexts}

FilterGuesses(m) ==
    IF AsksClassifier(m) THEN {<<"Python", probability_min>>} ELSE {NoGuess}

FilterSnippet ==
    \E m \in FilterMessages : \E g \in FilterGuesses(m) :
        /\ intake_snippet(m, g, {}, TRUE)
        /\ update' = m
        /\ UNCHANGED <<retrying, history, workers, kb_msg, nested>>

NextFilter == FilterSnippet

SpecFilter == Init /\ [][NextFilter]_vars

\* SpecConcurrent: pairs of authorized settings callbacks of the group chat,
\* each pair handled by the two workers in any interleaving.
ConcurrentJobs ==
    {Job("toggle_group_watch", GroupChat.id, NoVal)}
    \cup {Job("set_group_syntax", GroupChat.id, ext) : ext \in {"py", ""}}

ConcurrentHandout ==
    \E first \in ConcurrentJobs : \E second \in ConcurrentJobs :
        /\ "toggle_group_watch" \in {first.op, second.op}
        /\ Handout(first, second)
        /\ UNCHANGED <<last, retrying, history, update, kb_msg, nested>>

ConcurrentRead ==
    \E w \in 1..2 : ToggleRead(w) /\ UNCHANGED <<last, retrying, history, update, kb_msg, nested>>

ConcurrentToggle ==
    \E w \in 1..2 : ToggleWrite(w) /\ UNCHANGED <<last, retrying, history, update, kb_msg, nested>>

ConcurrentChoose ==
    \E w \in 1..2 : ChooseWrite(w) /\ UNCHANGED <<last, retrying, history, update, kb_msg, nested>>

NextConcurrent ==
    \/ ConcurrentHandout
    \/ ConcurrentRead
    \/ ConcurrentToggle
    \/ ConcurrentChoose

SpecConcurrent == Init /\ [][NextConcurrent]_vars

\* SpecPrompt: one snippet and its prompt kb_msg: the prompt is posted, buttons on
\* it are pressed (also when the message is gone already: the callback was
\* on its way), the timer thread runs.
PromptMessages ==
    {Message(PrivateChat, 1, CoreText, <<>>)}
    \cup {Message(GroupChat, u, CoreText,
                  <<[type |-> "code", offset |-> 0, length |-> Len(CoreText),
                     language |-> NoVal]>>) : u \in Users}

PromptPost ==
    /\ kb_msg.state = "none"
    /\ \E m \in PromptMessages : \E g \in GuessesFor(m) :
           /\ intake_snippet(m, g, {}, TRUE)
           /\ kb_msg' = Posted(m, last')
    /\ UNCHANGED <<retrying, history, update, workers, nested>>

PromptSetExt ==
    /\ kb_msg.state # "none"
    /\ \E i \in 1..Len(kb_syntax) : \E u \in Senders(kb_msg.chat) :
           \E has_snippet \in BOOLEAN :
               /\ kb_syntax[i].action = "set ext"
               /\ set_snippet_filetype(kb_msg.chat, u, kb_syntax[i].arg,
                                       has_snippet,
                                       GoneFaults("edit_message_reply_markup"),
                                       TRUE)
               /\ kb_msg' = Edited(last')
    /\ UNCHANGED <<retrying, history, update, workers, nested>>

PromptRestore ==
    /\ kb_msg.state # "none"
    /\ \E i \in 1..Len(kb_msg.kb) : \E u \in Senders(kb_msg.chat) :
           /\ kb_msg.kb[i].action = "restore"
           /\ restore_kb(kb_msg.chat, u, kb_msg.kb[i].arg,
                         GoneFaults("edit_message_reply_markup"))
           /\ kb_msg' = Edited(last')
    /\ UNCHANGED <<retrying, history, update, workers, nested>>

PromptDismiss ==
    /\ kb_msg.state # "none"
    /\ \E u \in Senders(kb_msg.chat) : \E s \in Statuses :
           \E reply_author \in {0, kb_msg.author} :
               /\ begone(kb_msg.chat, u, reply_author, s,
                         GoneFaults("delete_message"))
               /\ kb_msg' = Deleted(last')
    /\ UNCHANGED <<retrying, history, update, workers, nested>>

PromptTimer ==
    /\ kb_msg.timer = "armed"
    /\ delete_after_delay(kb_msg.chat, GoneFaults("delete_message"))
    /\ kb_msg' = [Deleted(last') EXCEPT !.timer = "fired"]
    /\ UNCHANGED <<retrying, history, update, workers, nested>>

NextPrompt ==
    \/ PromptPost
    \/ PromptSetExt
    \/ PromptRestore
    \/ PromptDismiss
    \/ PromptTimer

SpecPrompt == Init /\ [][NextPrompt]_vars

\* SpecNested: one text message after another, the Gateway answering
\* reply_to and send_photo or failing them with ConnectionError.
NestedArrive ==
    \E c \in Chats :
        NestedIntake(c) /\ UNCHANGED <<store, last, retrying, history, update,
                                      workers, kb_msg>>

NestedPrompt ==
    \E outcome \in {"ok", "ConnectionError", "ApiException"} :
        NestedReplyTo(outcome) /\ UNCHANGED <<store, last, retrying, history,
                                             update, workers, kb_msg>>

NestedSend ==
    \E outcome \in {"ok", "ConnectionError"} :
        NestedSendPhoto(outcome) /\ UNCHANGED <<store, last, retrying, history,
                                               update, workers, kb_msg>>

NextNested == NestedArrive \/ NestedPrompt \/ NestedSend

SpecNested == Init /\ [][NextNested]_vars

(* ------------------------------- claims -------------------------------- *)

IsGroup == last.chat_type # "private"

\* the chat's mode and the sender's override, as stored for the last event
IgnoreMode == KvGet(ignore_mode_groups, last.chat_id, FALSE)

Override ==
    KvGet(group_user_current_watchme_requests,
          WatchmeKey(last.chat_id, last.user), NoVal)

\* C1: in a group chat intake_snippet goes on to process a message iff
\* (mode = Ignore and override = 'watch') or (mode = Watch and override is
\* not 'ignore'), whatever else the tables hold.
C1_ConsentTable ==
    (last.op = "intake_snippet" /\ IsGroup) =>
        (last.gate <=> \/ IgnoreMode /\ Override = "watch"
                       \/ ~IgnoreMode /\ Override # "ignore")

C1_OptedInUnderIgnoreMode ==
    /\ last.op = "intake_snippet" /\ IsGroup
    /\ IgnoreMode /\ Override = "watch"
    /\ last.gate /\ last.calls # <<>>

\* C2: in a private chat a text message always reaches syntax resolution,
\* whatever /ignoreme, /watchme, toggle and default-syntax events came
\* before in that chat.
C2_PrivateAlwaysProcessed ==
    (last.op = "intake_snippet" /\ ~IsGroup) =>
        (last.gate /\ last.code # <<>>)

Resolved == last.op = "intake_snippet" /\ last.code # <<>>

Matching(code) ==
    {i \in 1..Len(SimplePrefixes) : StartsWith(code, SimplePrefixes[i].start)}

PrefixStage(code) ==
    IF Matching(code) = {} THEN NoVal
    ELSE SimplePrefixes[CHOOSE i \in Matching(code) :
                            \A j \in Matching(code) : i <= j].ext

ChatDefault == KvGet(group_syntaxes, last.chat_id, NoVal)

\* C4: without a recognized tag, a confidence >= probability_min with a
\* mapped label resolves to the mapped label; below probability_min the
\* result is the prefix stage's, else the chat default's.
C4_Threshold ==
    (Resolved /\ last.language \notin DOMAIN silicon_syntaxes) =>
        /\ last.classified
        /\ (last.guessed[2] >= probability_min
               /\ last.guessed[1] \in DOMAIN guesslang_syntaxes)
            => last.ext = guesslang_syntaxes[last.guessed[1]]
        /\ last.guessed[2] < probability_min
            => last.ext = IF PrefixStage(last.code) # NoVal
                          THEN PrefixStage(last.code) ELSE ChatDefault

C4_AtThreshold ==
    /\ Resolved /\ last.classified
    /\ last.guessed = <<"Python", probability_min>>
    /\ PrefixStage(last.code) = "xml"
    /\ last.ext = "py"

\* C5: the prefix stage returns the syntax of the first prefix in
\* declaration order that the snippet starts with; of two overlapping
\* prefixes the longer is declared first, so '<?php' gives php, '[[' toml.
C5_FirstPrefixWins ==
    /\ \A i, j \in 1..Len(SimplePrefixes) :
           (i # j /\ StartsWith(SimplePrefixes[i].start, SimplePrefixes[j].start))
               => i < j
    /\ (Resolved /\ last.simple) =>
           /\ last.guess = PrefixStage(last.code)
           /\ StartsWith(last.code, <<"<", "?", "p", "h", "p">>)
                  => last.guess = "php"
           /\ StartsWith(last.code, <<"[", "[">>) => last.guess = "toml"

C5_PhpNotXml ==
    /\ Resolved /\ last.simple
    /\ StartsWith(last.code, <<"<", "?", "p", "h", "p">>)
    /\ last.guess = "php" /\ last.ext = "php"

Rendered(theme) ==
    \E i \in 1..Len(last.calls) :
        last.calls[i].api = "mk_png" /\ last.calls[i].theme = theme

\* C6: the resolved syntax is the first available of explicit mapping,
\* classifier/heuristic guess, chat default; with none the snippet is
\* unresolved: nothing is rendered and the full syntax picker is the reply.
C6_Precedence ==
    Resolved =>
        LET explicit == KvGet(silicon_syntaxes, last.language, NoVal)
        IN  /\ last.specified = explicit
            /\ last.ext = IF Truthy(explicit) THEN explicit
                          ELSE IF Truthy(last.guess) THEN last.guess
                          ELSE ChatDefault
            /\ ~Truthy(last.ext) =>
                   /\ Len(last.calls) = 1
                   /\ last.calls[1].api = "reply_to"
                   /\ last.calls[1].kb = kb["syntax"]
            /\ Truthy(last.ext) =>
                   /\ last.calls[1].api = "reply_to"
                   /\ last.calls[1].kb = minikb("syntax")
                   /\ Rendered("Coldark-Dark")

C6_DefaultUsedLast ==
    /\ Resolved
    /\ ~Truthy(last.specified) /\ ~Truthy(last.guess)
    /\ last.ext = "rb" /\ ChatDefault = "rb"
    /\ Rendered("Coldark-Dark")

SettingsOps == {"set_group_syntax", "toggle_group_watch", "manage_group_options"}

\* C7: in a group a 'set default ext', a 'toggle watch mode' or a /settings
\* from an actor who is neither administrator nor creator changes no table
\* and sends or edits nothing; in a private chat they are always carried
\* out; the role is queried on every such event of a group.
C7_SettingsGated ==
    [][last'.op \in SettingsOps =>
          IF last'.chat_type # "private"
          THEN /\ last'.queried
               /\ last'.status \notin {"administrator", "creator"}
                      => (store' = store /\ last'.calls = <<>>)
               /\ last'.status \in {"administrator", "creator"}
                      => Len(last'.calls) = 1
          ELSE /\ Len(last'.calls) = 1
               /\ last'.op = "toggle_group_watch"
                      => KvGet(ignore_mode_groups', last'.chat_id, FALSE)
                         # KvGet(ignore_mode_groups, last'.chat_id, FALSE)
               /\ (last'.op = "set_group_syntax" /\ Truthy(last'.ext))
                      => KvGet(group_syntaxes', last'.chat_id, NoVal) = last'.ext
    ]_vars

C7_MemberRefused ==
    /\ last.op = "toggle_group_watch" /\ IsGroup
    /\ last.status = "member" /\ last.queried
    /\ last.calls = <<>>
    /\ IgnoreMode

\* C8: dismiss deletes the message iff it replies to a message of the
\* acting user or the acting user passes canModerate (private chat, or
\* group administrator/creator); without a reply chain the second decides.
C8_OwnerOrModerator ==
    last.op = "begone" =>
        (last.calls # <<>>
            <=> \/ last.reply_author = last.user
                \/ ~IsGroup
                \/ last.status \in {"administrator", "creator"})

Delivered ==
    SelectSeq(last.calls,
              LAMBDA c : c.api \in {"send_photo", "send_document"} /\ c.ok)

KeyboardOf(theme) ==
    SelectSeq(last.calls,
              LAMBDA c : c.api = "edit_message_reply_markup" /\ c.theme = theme)

HasButton(keyboard, action) ==
    \E i \in 1..Len(keyboard) : keyboard[i].action = action

CompletedRender ==
    /\ last.op \in {"intake_snippet", "set_snippet_filetype"}
    /\ Truthy(last.ext)
    /\ last.raised = NoVal
    /\ Rendered("Coldark-Dark")

\* C9: a completed render delivers one image (dark) in a group chat and
\* two (dark, then light) in a private chat; each delivered image gets a
\* keyboard with the dismiss button; re-share is attached only in private.
C9_ImagesPerChat ==
    CompletedRender =>
        /\ [i \in 1..Len(Delivered) |-> Delivered[i].theme]
               = IF IsGroup THEN <<"Coldark-Dark">>
                 ELSE <<"Coldark-Dark", "Coldark-Cold">>
        /\ \A i \in 1..Len(Delivered) :
               LET keyboards == KeyboardOf(Delivered[i].theme)
               IN  /\ Len(keyboards) = 1
                   /\ keyboards[1].ok
                   /\ HasButton(keyboards[1].kb, "begone")
                   /\ HasButton(keyboards[1].kb, "send to chat") => ~IsGroup

C9_TwoImagesInPrivate ==
    /\ CompletedRender /\ ~IsGroup
    /\ Len(Delivered) = 2
    /\ HasButton(KeyboardOf("Coldark-Cold")[1].kb, "send to chat")

\* the dark theme's rendering or delivery raised
DarkFailed ==
    \E i \in 1..Len(last.calls) :
        /\ last.calls[i].theme = "Coldark-Dark"
        /\ last.calls[i].api \in {"mk_png", "send_document"}
        /\ ~last.calls[i].ok

\* C10: in a private chat a failure of the dark theme's render or delivery
\* neither keeps the light theme from being attempted nor leaves the
\* render operation as an exception.
C10_ThemesIsolated ==
    (last.op \in {"intake_snippet", "set_snippet_filetype"}
        /\ ~IsGroup /\ DarkFailed) =>
        (Rendered("Coldark-Cold") /\ last.raised = NoVal)

\* C11: one call of a retry-wrapped operation invokes it at most 6 times,
\* returns at the first success, re-attempts only after a ConnectionError,
\* lets any other exception out at once, and after 6 ConnectionErrors raises
\* the last of them.
C11_BoundedRetry ==
    LET o == retrying.outcomes
        n == Len(o)
    IN  /\ n <= 6
        /\ \A i \in 1..(n - 1) : o[i] = "ConnectionError"
        /\ retrying.status = "looping" =>
               \A i \in 1..n : o[i] = "ConnectionError"
        /\ retrying.status = "returned" =>
               (n >= 1 /\ o[n] = "ok" /\ retrying.raised = NoVal)
        /\ retrying.status = "raised" =>
               /\ n >= 1 /\ o[n] # "ok"
               /\ retrying.raised = o[n]
               /\ o[n] = "ConnectionError" => n = 6
        /\ (n >= 1 /\ o[n] # "ConnectionError") => retrying.status # "looping"

C11_Exhausted ==
    /\ retrying.status = "raised"
    /\ Len(retrying.outcomes) = 6
    /\ retrying.raised = "ConnectionError"

\* the prompt ('which syntax?' reply) that intake_snippet posted
PromptPosted ==
    /\ last.op = "intake_snippet"
    /\ \E i \in 1..Len(last.calls) :
           last.calls[i].api = "reply_to" /\ last.calls[i].ok

\* C12: every prompt posted by intake_snippet gets its deletion timer,
\* whatever the outcome of the rendering that follows the prompt: once the
\* handler has ended, the timer thread of the prompt has been started.
C12_PromptTimerStarted == PromptPosted => last.timer

\* the last two events were authorized 'toggle watch mode' on the same chat
ToggledTwice ==
    /\ last.op = "toggle_group_watch" /\ last.permitted
    /\ history.previous.op = "toggle_group_watch" /\ history.previous.permitted
    /\ history.previous.chat_id = last.chat_id

\* C13: after two consecutive authorized 'toggle watch mode' actions on one
\* chat the configuration of every chat, as get_group_config_md reports it,
\* is what it was before the first of the two, also when the chat had no
\* stored row.
C13_ToggleTwice ==
    ToggledTwice =>
        ConfigOf(group_syntaxes, ignore_mode_groups) = history.earlier

\* the second toggle of a chat that had no stored row before the first
C13_FromNoRow ==
    /\ ToggledTwice
    /\ history.before[GroupChat] = <<NoVal, "ignore">>
    /\ history.earlier[GroupChat] = <<NoVal, "watch">>
    /\ last.chat_id = GroupChat.id
    /\ ignore_mode_groups[GroupChat.id] = FALSE

\* the default syntax that a read of the configuration reports now
ReadDefault ==
    get_group_config_md(group_syntaxes, ignore_mode_groups, last.chat_id)[1]

\* the configuration text that the last handler put on the settings message
ShownConfig == last.calls[Len(last.calls)].text

\* C14: after an authorized 'set default ext' with syntax s the configuration
\* read reports s; after one with the empty selection the chat has no key and
\* the read reports no default; the settings menu opened next shows the same.
C14_DefaultRoundTrip ==
    /\ (last.op = "set_group_syntax" /\ last.permitted) =>
           /\ ShownConfig[1] = ReadDefault
           /\ IF last.ext # ""
              THEN /\ ReadDefault = last.ext
                   /\ group_syntaxes[last.chat_id] = last.ext
              ELSE /\ ReadDefault = NoVal
                   /\ last.chat_id \notin DOMAIN group_syntaxes
    /\ (/\ last.op = "manage_group_options" /\ last.permitted
        /\ history.previous.op = "set_group_syntax"
        /\ history.previous.permitted
        /\ history.previous.chat_id = last.chat_id) =>
           ShownConfig[1] = IF history.previous.ext # ""
                            THEN history.previous.ext ELSE NoVal

\* the empty selection in a chat that had no default stored
C14_ClearedWithoutDefault ==
    /\ last.op = "set_group_syntax" /\ last.permitted /\ last.ext = ""
    /\ last.chat_id = GroupChat.id
    /\ history.before[GroupChat][1] = NoVal
    /\ GroupChat.id \notin DOMAIN group_syntaxes

\* the positions of the code and pre entities of the message taken in
CodeSpans ==
    {i \in 1..Len(update.entities) :
        update.entities[i].type \in {"code", "pre"}}

\* the text under entity i of the message
SpanText(i) ==
    LET e == update.entities[i]
    IN  [k \in 1..e.length |-> update.text[e.offset + k]]

RECURSIVE SpanWords(_)
SpanWords(spans) ==
    IF spans = {} THEN 0
    ELSE LET i == CHOOSE x \in spans : TRUE
         IN  WordCount(SpanText(i)) + SpanWords(spans \ {i})

\* C15: in a group chat a text message without a code/pre entity, or whose
\* code spans hold fewer than two words together, is dropped: no classifier
\* call, no reply, no image. In a private chat the whole text is the snippet
\* and every message let through the consent gate is answered.
C15_GroupContentFilter ==
    (last.op = "intake_snippet" /\ last.gate) =>
        IF IsGroup
        THEN (CodeSpans = {} \/ SpanWords(CodeSpans) < 2) =>
                 /\ last.code = <<>>
                 /\ ~last.classified
                 /\ last.calls = <<>>
        ELSE /\ last.code = update.text
             /\ last.calls # <<>>

\* one word of code in a group is dropped
C15_OneWordOfCode ==
    /\ last.op = "intake_snippet" /\ last.gate /\ IsGroup
    /\ CodeSpans # {} /\ SpanWords(CodeSpans) = 1
    /\ last.calls = <<>>

\* the tables after the job is handled alone, start to end
Alone(job, tables) ==
    IF job.op = "toggle_group_watch"
    THEN [tables EXCEPT !.modes =
             KvSet(tables.modes, job.chat_id,
                   ~KvGet(tables.modes, job.chat_id, FALSE))]
    ELSE [tables EXCEPT !.syntaxes =
             IF job.ext # "" THEN KvSet(tables.syntaxes, job.chat_id, job.ext)
             ELSE KvDel(tables.syntaxes, job.chat_id)]

\* the results of handling the two jobs one after the other
Serial ==
    {Alone(workers.jobs[2], Alone(workers.jobs[1], workers.origin)),
     Alone(workers.jobs[1], Alone(workers.jobs[2], workers.origin))}

Tables == [syntaxes |-> group_syntaxes, modes |-> ignore_mode_groups]

BothHandled == AllDone /\ workers.jobs[1].op # "init"

TwoToggles ==
    /\ workers.jobs[1].op = "toggle_group_watch"
    /\ workers.jobs[2].op = "toggle_group_watch"

\* C16 as stated: whatever the interleaving of two concurrently handled
\* authorized settings changes of a chat, the stored configuration at the end
\* is that of handling the two in some order, so two toggles leave the mode
\* as it was.
C16_Serializable ==
    BothHandled =>
        /\ Tables \in Serial
        /\ TwoToggles =>
               KvGet(ignore_mode_groups, GroupChat.id, FALSE)
                   = KvGet(workers.origin.modes, GroupChat.id, FALSE)

\* C16 amended: a toggle and a 'set default ext' handled concurrently end as
\* if handled in some order; two concurrent toggles end either as handled in
\* some order or as one toggle alone (both read the mode before either
\* stored it), and nothing but the chat's mode row differs from the start.
C16_LastWriteWins ==
    BothHandled =>
        IF TwoToggles
        THEN Tables \in Serial \cup {Alone(workers.jobs[1], workers.origin)}
        ELSE Tables \in Serial

\* two concurrent toggles that flipped the mode once
C16_LostToggle ==
    /\ BothHandled /\ TwoToggles
    /\ Tables = Alone(workers.jobs[1], workers.origin)
    /\ Tables \notin Serial

\* C17: whenever the classifier's top label has no entry in
\* guesslang_syntaxes, whatever the probability, the prefix rules are tried
\* on the snippet before the chat default is consulted.
C17_UnmappedTriesPrefixes ==
    (Resolved /\ last.classified
        /\ last.guessed[1] \notin DOMAIN guesslang_syntaxes) =>
        last.simple

\* the classifier raised when intake_snippet asked it
ClassifierFailed ==
    /\ last.op = "intake_snippet"
    /\ \E i \in 1..Len(last.calls) :
           last.calls[i].api = "probabilities" /\ ~last.calls[i].ok

\* C18: when the classifier raises, resolution goes on with the prefix
\* rules and the chat default as if it had answered nothing, and the handler
\* ends without an exception.
C18_ClassifierFailureAbsorbed ==
    ClassifierFailed => (last.simple /\ last.raised = NoVal)

\* the last invocation asked the Gateway to delete a message that was gone
DeleteOfGone ==
    /\ last.op \in {"begone", "delete_after_delay"}
    /\ kb_msg.before.state = "deleted"
    /\ \E i \in 1..Len(last.calls) :
           last.calls[i].api = "delete_message" /\ ~last.calls[i].ok

\* C19: the Gateway's error for deleting a message that is gone already is
\* caught where delete_message is called and no handler or thread ends with
\* it: timer after dismiss, dismiss after timer, dismiss after dismiss.
C19_DeleteErrorCaught == DeleteOfGone => last.raised = NoVal

\* one restore control, then dismiss
MinimizedLayout(keyboard) ==
    /\ Len(keyboard) = 2
    /\ keyboard[1].action = "restore"
    /\ keyboard[2].action = "begone"

C21_FirstKeyboardFull ==
    /\ PromptPosted =>
           \A i \in 1..Len(last.calls) :
               last.calls[i].api = "reply_to" =>
                   (last.calls[i].kb = kb["syntax"]
                       /\ ~IsMinimized(last.calls[i].kb))
    /\ (last.op = "manage_group_options" /\ last.calls # <<>>) =>
           last.calls[1].kb = kb["group options"]

\* C22: for one inbound snippet at most one prompt is posted and at most one
\* image per theme is delivered, and neither reply_to nor the send_photo of
\* a theme is attempted more than 6 times, also when calls fail with
\* ConnectionError and the nested retry wrappers run again.
C22_OncePerSnippet ==
    /\ nested.prompts <= 1
    /\ \A t \in DOMAIN nested.delivered : nested.delivered[t] <= 1
    /\ \A call \in DOMAIN nested.attempted : nested.attempted[call] <= 6

\* whether intake_snippet drops the messages of the pair, from the tables
Dropped(modes, requests, chat_id, user_id) ==
    LET override == KvGet(requests, WatchmeKey(chat_id, user_id), NoVal)
    IN  IF KvGet(modes, chat_id, FALSE) THEN override # "watch"
        ELSE override = "ignore"

\* distinct (chat, user) pairs have distinct composite keys
KeysDistinct ==
    \A c1, c2 \in (0 - MaxId)..MaxId : \A u1, u2 \in 1..MaxId :
        WatchmeKey(c1, u1) = WatchmeKey(c2, u2) => (c1 = c2 /\ u1 = u2)

\* C23: /ignoreme and /watchme of user u in chat c write the override of
\* the pair (c, u) and nothing else: the default-syntax and ignore-mode
\* tables and the override of every other pair stay, so the decision for
\* every other pair is the same before and after; distinct pairs have
\* distinct keys.
C23_OverrideFrame ==
    [][last'.op \in {"ignore_group_user", "watch_group_user"} =>
          /\ KeysDistinct
          /\ group_syntaxes' = group_syntaxes
          /\ ignore_mode_groups' = ignore_mode_groups
          /\ group_user_current_watchme_requests'
                 [WatchmeKey(last'.chat_id, last'.user)]
                 = IF last'.op = "ignore_group_user" THEN "ignore" ELSE "watch"
          /\ DOMAIN group_user_current_watchme_requests'
                 = DOMAIN group_user_current_watchme_requests
                   \cup {WatchmeKey(last'.chat_id, last'.user)}
          /\ \A c \in Chats : \A u \in Users :
                 <<c.id, u>> # <<last'.chat_id, last'.user>> =>
                     /\ KvGet(group_user_current_watchme_requests',
                              WatchmeKey(c.id, u), NoVal)
                        = KvGet(group_user_current_watchme_requests,
                                WatchmeKey(c.id, u), NoVal)
                     /\ Dropped(ignore_mode_groups',
                                group_user_current_watchme_requests', c.id, u)
                        = Dropped(ignore_mode_groups,
                                  group_user_current_watchme_requests, c.id, u)
    ]_vars

\* /ignoreme of user 1 in the group where user 2 has opted in under ignore mode
C23_OtherUserOptedIn ==
    /\ last.op = "ignore_group_user"
    /\ last.chat_id = GroupChat.id /\ last.user = 1
    /\ KvGet(ignore_mode_groups, GroupChat.id, FALSE)
    /\ KvGet(group_user_current_watchme_requests,
             WatchmeKey(GroupChat.id, 1), NoVal) = "ignore"
    /\ KvGet(group_user_current_watchme_requests,
             WatchmeKey(GroupChat.id, 2), NoVal) = "watch"
    /\ ~Dropped(ignore_mode_groups, group_user_current_watchme_requests,
                GroupChat.id, 2)

====
